---- MODULE Spec2Model ----
(***************************************************************************)
(* A model of actor_critic_14.py: the recurrent actor-critic (ActorCritic),*)
(* the rollout collector (batch_rollout), the loss (compute_loss) and the  *)
(* training loop of __main__.                                              *)
(*                                                                         *)
(* Three specifications share the module:                                  *)
(*   Spec       the training loop calling batch_rollout on an environment  *)
(*              batch whose step results are chosen by the environment;    *)
(*   SpecModel  any sequence of clear / reset / forward calls on the model;*)
(*   SpecLoss   compute_loss applied to trajectories with numeric contents.*)
(*                                                                         *)
(* Tensors are modelled by their batch size, their length along the time   *)
(* axis and, where a claim reads them, their contents.  In Spec a tensor's *)
(* content is the provenance of the value (which environment step or which *)
(* forward pass produced it); in SpecLoss it is an exact rational number.  *)
(***************************************************************************)
EXTENDS Integers, Sequences, FiniteSets

\* ---------------------------------------------------------------- bounds
\* Largest environment batch size envs.n that is explored.
MaxN == 4
\* Number of training epochs explored (the loop itself runs NEpoch times).
MaxEpoch == 2
\* Longest sequence of calls explored by SpecModel.
MaxCalls == 4
\* Largest batch size of the calls explored by SpecModel.
MaxBatch == 2
\* Longest trajectory explored by SpecLoss.
MaxT == 3

\* ------------------------------------------------------ program constants
\* for _ in range(200)
Horizon == 200
\* n_epoch = 10000
NEpoch == 10000
\* nn.Linear(512, 7): the number of actions of each head
NumActions == 7

VARIABLES
    \* ---- ActorCritic
    hx,                     \* the pair (self.hx, self.cx)
    \* ---- the environment batch
    envs,                   \* [n, t]: batch size, step calls since reset()
    \* ---- batch_rollout's locals
    obss0, outputs_ac0,
    all_observations0, all_actions0, all_actions1,
    all_logits_actions0, all_logits_actions1, all_values0,
    all_rewards, all_ends,
    \* ---- __main__
    pc,                     \* where the training loop stands
    epoch,
    output0,                \* the RolloutOutput of the current epoch
    loss_totals, rewards_all,
    opt_steps,              \* number of optimizer0.step() calls made
    \* ---- observation of the run
    calls,                  \* the calls issued, in order
    error,                  \* the exception that ended the run, or "none"
    \* ---- SpecLoss
    traj, params, losses

lists == <<all_observations0, all_actions0, all_actions1,
           all_logits_actions0, all_logits_actions1, all_values0,
           all_rewards, all_ends>>
mainVars == <<pc, epoch, output0, loss_totals, rewards_all, opt_steps>>
lossVars == <<traj, params, losses>>
vars == <<hx, envs, obss0, outputs_ac0, lists, mainVars, calls, error, lossVars>>

\* --------------------------------------------------------- ActorCritic
\* __init__: self.hx, self.cx = None, None
NoHidden == [present |-> FALSE, n |-> 0, k |-> 0]

\* A clear() that leaves the state as it is.
ClearKeepsState == hx

\* clear(): self.hx, self.cx = None, None
ModelClear == [present |-> FALSE, n |-> 0, k |-> 0]

\* self.hx = torch.zeros(n, ...); self.cx = torch.zeros(n, ...).  k counts
\* the LSTM updates applied since the zeros were written: k = 0 is the
\* all-zero state.
ModelReset(n) == [present |-> TRUE, n |-> n, k |-> 0]

\* A forward that takes an absent state for a zero state, as the LSTM cell
\* does for hx=None.
ForwardOKLazyInit(h, inputs) ==
    /\ inputs.valid
    /\ h.present => h.n = inputs.batch

\* forward returns normally iff both asserts hold and the LSTM cell accepts
\* the state: (None, None) has no tensors to read, and a state of another
\* batch size than the input is rejected.
ForwardOK(h, inputs) ==
    /\ inputs.valid
    /\ h.present
    /\ h.n = inputs.batch

\* self.hx, self.cx = self.lstm(x, (self.hx, self.cx)): assigned only when
\* the call returns.
ForwardState(h, inputs) ==
    IF ForwardOK(h, inputs) THEN [h EXCEPT !.k = @ + 1] ELSE h

\* ActorCriticOutput: three tensors of the input's batch size with a
\* singleton time axis, computed from the observation and the new state.
ForwardOut(h, inputs) ==
    [batch |-> inputs.batch, obs |-> inputs.step, k |-> h.k + 1]

NoOutput == [batch |-> 0, obs |-> 0, k |-> 0]

\* ----------------------------------------------------- the environment
\* envs.reset()
EnvReset(e) == [e EXCEPT !.t = 0]

\* What one envs.step(actions) call can do: raise, or advance every
\* instance one tick and return the observations, the rewards and a done
\* flag per instance.  The flags are the environment's choice.
StepResults(e) ==
    {[raised |-> TRUE, dones |-> [i \in 1..e.n |-> FALSE]]}
    \cup {[raised |-> FALSE, dones |-> d] : d \in [1..e.n -> BOOLEAN]}

\* the state of the batch after a step call that returned
EnvStep(e) == [e EXCEPT !.t = @ + 1]

\* obss0 as returned by the step call number e.t + 1 since reset()
EnvObs(e) == [batch |-> e.n, step |-> e.t + 1, valid |-> TRUE]

NoObs == [batch |-> 0, step |-> 0, valid |-> FALSE]

\* np.any(dones), np.all(dones)
AnyDone(d) == \E i \in DOMAIN d : d[i]
AllDone(d) == \A i \in DOMAIN d : d[i]

\* ------------------------------------------------------- batch_rollout
Call(op, arg) == [op |-> op, arg |-> arg]

\* torch.cat(list, dim=1) / torch.stack(list, dim=1) of per-step records of
\* width 1: the batch size of the records, one column per record.
Cat(list) == [B |-> list[1].batch, T |-> Len(list), data |-> list]

NoTensor == [B |-> 0, T |-> 0, data |-> <<>>]

NoRollout ==
    [observations |-> NoTensor, actions0 |-> NoTensor, actions1 |-> NoTensor,
     logits_actions0 |-> NoTensor, logits_actions1 |-> NoTensor,
     values |-> NoTensor, rewards |-> NoTensor, ends |-> NoTensor]

\* A return that also stacks the observation in hand after the loop.
RolloutOutputExtraObs ==
    [observations    |-> Cat(Append(all_observations0, obss0)),
     actions0        |-> Cat(all_actions0),
     actions1        |-> Cat(all_actions1),
     logits_actions0 |-> Cat(all_logits_actions0),
     logits_actions1 |-> Cat(all_logits_actions1),
     values          |-> Cat(all_values0),
     rewards         |-> Cat(all_rewards),
     ends            |-> Cat(all_ends)]

\* return RolloutOutput(...)
RolloutOutput ==
    [observations    |-> Cat(all_observations0),
     actions0        |-> Cat(all_actions0),
     actions1        |-> Cat(all_actions1),
     logits_actions0 |-> Cat(all_logits_actions0),
     logits_actions1 |-> Cat(all_logits_actions1),
     values          |-> Cat(all_values0),
     rewards         |-> Cat(all_rewards),
     ends            |-> Cat(all_ends)]

\* An exception that a handler around the loop body swallows, going on to
\* the next epoch.
RaiseAndRetry(kind) == pc' = "main" /\ error' = kind

\* An exception: nothing in batch_rollout or in __main__ catches it, so it
\* ends the run.
Raise(kind) == pc' = "halted" /\ error' = kind

\* An iteration that submits the actions of the forward pass before.
IterCallsStale(inputs, f) ==
    <<Call("forward", inputs.step), Call("env.step", f - 1)>>

\* The calls of one loop iteration, in order: the forward pass on the
\* observation in hand, then the step that submits the actions sampled from
\* forward pass number f.
IterCalls(inputs, f) == <<Call("forward", inputs.step), Call("env.step", f)>>

\* batch_rollout up to the loop: actor0.reset(n), the empty lists,
\* envs.reset() and the null-action step.
RolloutStart ==
    /\ pc = "main"
    /\ epoch < MaxEpoch
    /\ hx' = ModelReset(envs.n)
    /\ all_observations0' = <<>> /\ all_actions0' = <<>>
    /\ all_actions1' = <<>> /\ all_logits_actions0' = <<>>
    /\ all_logits_actions1' = <<>> /\ all_values0' = <<>>
    /\ all_rewards' = <<>> /\ all_ends' = <<>>
    /\ \E resetRaised \in BOOLEAN, res \in StepResults(EnvReset(envs)) :
         IF resetRaised
         THEN /\ Raise("env.reset")
              /\ calls' = <<Call("reset", envs.n), Call("env.reset", 0)>>
              /\ UNCHANGED <<envs, obss0>>
         ELSE IF res.raised
         THEN /\ Raise("env.step")
              /\ calls' = <<Call("reset", envs.n), Call("env.reset", 0),
                            Call("env.step", 0)>>
              /\ envs' = EnvReset(envs)
              /\ UNCHANGED obss0
         ELSE /\ pc' = "loop"
              /\ error' = "none"
              /\ calls' = <<Call("reset", envs.n), Call("env.reset", 0),
                            Call("env.step", 0)>>
              /\ obss0' = EnvObs(EnvReset(envs))
              /\ envs' = EnvStep(EnvReset(envs))
    /\ UNCHANGED <<epoch, output0, loss_totals, rewards_all, opt_steps,
                   outputs_ac0, lossVars>>

\* A loop without the break.
LoopContinuesNoBreak(d, it) == it < Horizon

\* Whether the loop goes round again after an iteration that recorded the
\* flags d as iteration number it: break on a done flag, range(200) otherwise.
LoopContinues(d, it) == ~AnyDone(d) /\ it < Horizon

\* A loop without the assert.
AssertNeverFails(d) == FALSE

\* assert np.all(dones), reached only under np.any(dones)
AssertFails(d) == AnyDone(d) /\ ~AllDone(d)

\* One iteration of the for loop.
RolloutIter ==
    /\ pc = "loop"
    /\ LET inputs == obss0
           out    == ForwardOut(hx, inputs)
           f      == out.k
           tok    == [batch |-> out.batch, fwd |-> f]
           logit  == [batch |-> out.batch, fwd |-> f]
       IN
       IF ~ForwardOK(hx, inputs)
       THEN /\ Raise("forward")
            /\ calls' = Append(calls, IterCalls(inputs, f)[1])
            /\ UNCHANGED <<hx, envs, obss0, outputs_ac0, lists>>
       ELSE
         /\ hx' = ForwardState(hx, inputs)
         /\ outputs_ac0' = out
         /\ all_observations0' = Append(all_observations0, inputs)
         /\ all_actions0' = Append(all_actions0, tok)
         /\ all_logits_actions0' = Append(all_logits_actions0, logit)
         /\ all_values0' = Append(all_values0, out)
         /\ all_actions1' = Append(all_actions1, tok)
         /\ all_logits_actions1' = Append(all_logits_actions1, logit)
         /\ calls' = calls \o IterCalls(inputs, f)
         /\ \E res \in StepResults(envs) :
              IF res.raised
              THEN /\ Raise("env.step")
                   /\ UNCHANGED <<envs, obss0, all_rewards, all_ends>>
              ELSE
                /\ obss0' = EnvObs(envs)
                /\ envs' = EnvStep(envs)
                /\ all_rewards' = Append(all_rewards,
                        [batch |-> envs.n, step |-> envs.t + 1, acts |-> f])
                /\ all_ends' = Append(all_ends,
                        [batch |-> envs.n, step |-> envs.t + 1, acts |-> f,
                         dones |-> res.dones])
                /\ IF AssertFails(res.dones) THEN Raise("assert")
                   ELSE /\ error' = "none"
                        /\ IF LoopContinues(res.dones, Len(all_ends) + 1)
                           THEN pc' = "loop"
                           ELSE pc' = "after_loop"
    /\ UNCHANGED <<epoch, output0, loss_totals, rewards_all, opt_steps, lossVars>>

\* After the loop: actor0.clear() and the return of the RolloutOutput to
\* output0 = batch_rollout(alg0, envs).  The locals end with the call.
RolloutReturn ==
    /\ pc = "after_loop"
    /\ hx' = ModelClear
    /\ output0' = RolloutOutput
    /\ calls' = Append(Append(calls, Call("clear", 0)),
                       Call("return", Len(all_ends)))
    /\ pc' = "train"
    /\ obss0' = NoObs
    /\ outputs_ac0' = NoOutput
    /\ all_observations0' = <<>> /\ all_actions0' = <<>>
    /\ all_actions1' = <<>> /\ all_logits_actions0' = <<>>
    /\ all_logits_actions1' = <<>> /\ all_values0' = <<>>
    /\ all_rewards' = <<>> /\ all_ends' = <<>>
    /\ UNCHANGED <<envs, epoch, loss_totals, rewards_all, opt_steps, error,
                   lossVars>>

\* ------------------------------------------------------------- tensors
\* The length of x[:, :-1] along the time axis, for x of length T.
SliceLen(T) == IF T > 0 THEN T - 1 ELSE 0

\* .mean() and F.mse_loss average over count elements; over none the
\* result is NaN (0/0).
MeanIsNaN(count) == count = 0

\* ------------------------------------------------------------ scalars
\* A float is an exact rational [num, den] in lowest terms with den > 0;
\* NaN is 0/0.  Rounding is not modelled.
NaN == [num |-> 0, den |-> 0]
IsNaN(x) == x.den = 0

RECURSIVE GCD(_, _)
GCD(a, b) == IF b = 0 THEN a ELSE GCD(b, a % b)

Abs(a) == IF a < 0 THEN -a ELSE a

R(n, d) ==
    IF d = 0 THEN NaN
    ELSE LET g == GCD(Abs(n), Abs(d))
             sg == IF d < 0 THEN -1 ELSE 1
         IN [num |-> sg * (n \div g), den |-> sg * (d \div g)]

Num(n) == [num |-> n, den |-> 1]

RAdd(x, y) ==
    IF IsNaN(x) \/ IsNaN(y) THEN NaN
    ELSE LET l == (x.den \div GCD(x.den, y.den)) * y.den
         IN R(x.num * (l \div x.den) + y.num * (l \div y.den), l)

RNeg(x) == [num |-> -x.num, den |-> x.den]
RSub(x, y) == RAdd(x, RNeg(y))

RMul(x, y) ==
    IF IsNaN(x) \/ IsNaN(y) THEN NaN
    ELSE LET g1 == GCD(Abs(x.num), y.den)
             g2 == GCD(Abs(y.num), x.den)
         IN IF x.num = 0 \/ y.num = 0 THEN Num(0)
            ELSE R((x.num \div g1) * (y.num \div g2),
                   (x.den \div g2) * (y.den \div g1))

RECURSIVE RSum(_)
RSum(xs) == IF Len(xs) = 0 THEN Num(0) ELSE RAdd(xs[1], RSum(Tail(xs)))

\* x.mean(): the sum over the count, NaN for a tensor without entries.
Mean(xs) == IF MeanIsNaN(Len(xs)) THEN NaN ELSE RMul(RSum(xs), R(1, Len(xs)))

\* ------------------------------------------- Categorical (torch library)
\* Logits are vectors over the NumActions actions with entries 0 or 1;
\* log-probabilities and entropies are in hundredths of a nat, rounded.
\* LSE100[k+1] is 100 * ln(k * e + NumActions - k), the log-sum-exp of a
\* vector with k ones, and ENT100[k+1] the entropy of its softmax.
Ones(l) == Cardinality({a \in 1..NumActions : l[a] = 1})
LSE100 == <<195, 217, 235, 250, 263, 275, 285, 295>>
ENT100 == <<195, 185, 182, 183, 185, 187, 191, 195>>

\* Categorical(logits=l).log_prob(a), a in 0..NumActions-1
LogProb(l, a) == R(100 * l[a + 1] - LSE100[Ones(l) + 1], 100)

\* Categorical(logits=l).entropy()
Entropy(l) == R(ENT100[Ones(l) + 1], 100)

\* ---------------------------------------------------- utils (not in src)
\* compute_lambda_returns: backward from the final step, whose return is
\* its value; a terminal step's return is its reward; any other step's is
\* reward[t] + gamma * ((1 - lambda_) * value[t+1] + lambda_ * return[t+1]).
RECURSIVE LambdaReturn(_, _, _, _, _, _)
LambdaReturn(rewards, values, ends, gamma, lambda_, t) ==
    IF t = Len(values) THEN Num(values[t])
    ELSE IF ends[t] THEN Num(rewards[t])
    ELSE RAdd(Num(rewards[t]),
              RMul(gamma,
                   RAdd(RMul(RSub(Num(1), lambda_), Num(values[t + 1])),
                        RMul(lambda_, LambdaReturn(rewards, values, ends,
                                                   gamma, lambda_, t + 1)))))

compute_lambda_returns(rewards, values, ends, gamma, lambda_) ==
    [t \in 1..Len(values) |->
        LambdaReturn(rewards, values, ends, gamma, lambda_, t)]

\* LossWithIntermediateLosses: the three components and their sum.
LossWithIntermediateLosses(loss_actions, loss_values, loss_entropy) ==
    [loss_actions |-> loss_actions,
     loss_values  |-> loss_values,
     loss_entropy |-> loss_entropy,
     loss_total   |-> RAdd(RAdd(loss_actions, loss_values), loss_entropy)]

\* -------------------------------------------------------- compute_loss
\* x[:, :-1] for a tensor of one row
DropLast(x) == SubSeq(x, 1, SliceLen(Len(x)))

\* A call that passes the values as rewards and the rewards as values.
LambdaReturnsSwapped(outputs, gamma, lambda_) ==
    compute_lambda_returns(outputs.values, outputs.rewards, outputs.ends,
                           gamma, lambda_)

\* compute_lambda_returns(rewards=outputs.rewards, values=outputs.values,
\* ends=outputs.ends, gamma=gamma, lambda_=lambda_), before the slice
LambdaReturnsCall(outputs, gamma, lambda_) ==
    compute_lambda_returns(outputs.rewards, outputs.values, outputs.ends,
                           gamma, lambda_)

\* Log-probabilities of the actions one step later: actions[:, 1:].
LogProbsNextAction(logits, actions) ==
    [t \in 1..SliceLen(Len(logits)) |-> LogProb(logits[t], actions[t + 1])]

\* Categorical(logits=logits[:, :-1]).log_prob(actions[:, :-1])
LogProbs(logits, actions) ==
    [t \in 1..Len(DropLast(logits)) |->
        LogProb(DropLast(logits)[t], DropLast(actions)[t])]

\* Categorical(logits=logits[:, :-1]).entropy()
Entropies(logits) ==
    [t \in 1..Len(DropLast(logits)) |-> Entropy(DropLast(logits)[t])]

\* entropy_weight: float = 0.001
EntropyWeight == R(1, 1000)

\* compute_loss(outputs, envs, gamma, lambda_, entropy_weight) for a batch
\* of one row: the two loss bundles and rewards_total.
compute_loss(outputs, gamma, lambda_, entropy_weight) ==
    LET lambda_returns == DropLast(LambdaReturnsCall(outputs, gamma, lambda_))
        values == DropLast(outputs.values)
        log_probs0 == LogProbs(outputs.logits_actions0, outputs.actions0)
        log_probs1 == LogProbs(outputs.logits_actions1, outputs.actions1)
        adv == [t \in 1..Len(values) |->
                   RSub(lambda_returns[t], Num(values[t]))]
        loss_actions0 ==
            RNeg(Mean([t \in 1..Len(values) |-> RMul(log_probs0[t], adv[t])]))
        loss_actions1 ==
            RNeg(Mean([t \in 1..Len(values) |-> RMul(log_probs1[t], adv[t])]))
        loss_entropy0 ==
            RNeg(RMul(entropy_weight, Mean(Entropies(outputs.logits_actions0))))
        loss_entropy1 ==
            RNeg(RMul(entropy_weight, Mean(Entropies(outputs.logits_actions1))))
        loss_values ==
            Mean([t \in 1..Len(values) |-> RMul(adv[t], adv[t])])
    IN [losses0 |-> LossWithIntermediateLosses(loss_actions0, loss_values,
                                              loss_entropy0),
        losses1 |-> LossWithIntermediateLosses(loss_actions1, loss_values,
                                              loss_entropy1),
        rewards0 |-> RSum([t \in 1..Len(outputs.rewards) |->
                              Num(outputs.rewards[t])])]

\* A training loop that backpropagates the first head's total only.
LossTotalOneHead(l0, l1) == l0.loss_total

\* loss_total = losses0.loss_total + losses1.loss_total
LossTotal(l0, l1) == RAdd(l0.loss_total, l1.loss_total)

\* ------------------------------------------------------------ __main__
\* loss_total = losses0.loss_total + losses1.loss_total, as far as the
\* training loop reads it: every term of compute_loss is a mean over the
\* B * (T-1) entries left by [:, :-1].
DriverLoss(out) ==
    IF MeanIsNaN(out.values.B * SliceLen(out.values.T)) THEN "nan" ELSE "finite"

\* The rest of the loop body, which follows batch_rollout without a test of
\* the loss: zero_grad, compute_loss, backward, clip_grad_norm_, step, the
\* two appends and the dump of the history.  rewards_all records which
\* epoch's rewards0 each entry is.  output0 is not read again before the
\* next epoch rebinds it, so the model drops it here.
TrainStep ==
    /\ pc = "train"
    /\ opt_steps' = opt_steps + 1
    /\ loss_totals' = Append(loss_totals, DriverLoss(output0))
    /\ rewards_all' = Append(rewards_all, epoch)
    /\ epoch' = epoch + 1
    /\ pc' = IF epoch + 1 < NEpoch THEN "main" ELSE "finished"
    /\ output0' = NoRollout
    /\ UNCHANGED <<hx, envs, obss0, outputs_ac0, lists, calls, error, lossVars>>

NoParams == [gamma |-> 0, lambda_ |-> 0]

Init ==
    /\ hx = NoHidden
    /\ envs \in [n : 1..MaxN, t : {0}]
    /\ obss0 = NoObs
    /\ outputs_ac0 = NoOutput
    /\ all_observations0 = <<>> /\ all_actions0 = <<>>
    /\ all_actions1 = <<>> /\ all_logits_actions0 = <<>>
    /\ all_logits_actions1 = <<>> /\ all_values0 = <<>>
    /\ all_rewards = <<>> /\ all_ends = <<>>
    /\ pc = "main"
    /\ epoch = 0
    /\ output0 = NoRollout
    /\ loss_totals = <<>> /\ rewards_all = <<>>
    /\ opt_steps = 0
    /\ calls = <<>>
    /\ error = "none"
    /\ traj = <<>> /\ params = NoParams /\ losses = <<>>

Next == RolloutStart \/ RolloutIter \/ RolloutReturn \/ TrainStep

Spec == Init /\ [][Next]_vars

\* ===================================================== claims under Spec
Partial(d) == AnyDone(d) /\ ~AllDone(d)
NoneDone(d) == ~AnyDone(d)
Returned == pc = "train"
InRollout == pc \in {"loop", "after_loop"}
CountCalls(op) == Cardinality({j \in 1..Len(calls) : calls[j].op = op})

\* C1: batch_rollout runs at most 200 iterations and stops at the first
\* iteration in which an environment reports done: while the loop runs no
\* recorded flag is set and fewer than 200 iterations are done; a returned
\* rollout has 1 <= T <= 200, no flag set before column T-1, and column T-1
\* is either all True (synchronized termination at iteration T) or all
\* False with T = 200 (no environment ever reported done).
C1_StopsAtFirstDone ==
    /\ CountCalls("forward") <= Horizon
    /\ pc = "loop" =>
         /\ Len(all_ends) < Horizon
         /\ \A t \in 1..Len(all_ends) : NoneDone(all_ends[t].dones)
    /\ Returned =>
         LET T == output0.ends.T
             E == output0.ends.data
         IN /\ T \in 1..Horizon
            /\ Len(E) = T
            /\ \A t \in 1..(T - 1) : NoneDone(E[t].dones)
            /\ \/ AllDone(E[T].dones)
               \/ NoneDone(E[T].dones) /\ T = Horizon

\* C1 witness: four environments report done together at iteration 5.
C1_Witness ==
    /\ Returned
    /\ output0.ends.B = 4
    /\ output0.ends.T = 5
    /\ AllDone(output0.ends.data[5].dones)

\* C2: an iteration in which some but not all environments report done
\* fails in that iteration: the run is halted by the assertion right after
\* the flags are recorded, nothing is collected after them, the model is
\* not cleared and no RolloutOutput is returned.
C2_PartialDoneFails ==
    /\ \A t \in 1..Len(all_ends) :
         Partial(all_ends[t].dones) =>
            /\ pc = "halted" /\ error = "assert"
            /\ t = Len(all_ends)
            /\ Len(all_observations0) = t
            /\ calls[Len(calls)].op = "env.step"
            /\ CountCalls("return") = 0
    /\ \A t \in 1..output0.ends.T : ~Partial(output0.ends.data[t].dones)

\* C2 witness: three of four environments report done at iteration 3.
C2_Witness ==
    /\ pc = "halted"
    /\ envs.n = 4
    /\ Len(all_ends) = 3
    /\ Cardinality({i \in 1..4 : all_ends[3].dones[i]}) = 3

\* C3 as claimed: outside an executing rollout (before the first, between
\* two, after a return and after a failure) the hidden state is absent.
C3_Original == ~InRollout => ~hx.present

\* C3 amended: the first forward of every rollout runs on the zeroed state
\* of batch size n; after every return of batch_rollout (horizon or
\* synchronized termination) the hidden state is absent; a rollout that
\* fails leaves the hidden state present(n).
C3_ClearedOnReturn ==
    /\ (pc = "loop" /\ Len(all_values0) = 0) => hx = ModelReset(envs.n)
    /\ pc \in {"main", "train", "finished"} => ~hx.present
    /\ pc = "halted" => hx.present /\ hx.n = envs.n

\* C3 witness: a rollout of the second epoch has returned after two steps.
C3_Witness ==
    /\ Returned /\ epoch = 1
    /\ output0.values.T = 2
    /\ ~hx.present

\* C5: at the end of every completed iteration the per-step lists have one
\* length and every record has batch size n; every returned RolloutOutput
\* has B = envs.n and one T in all eight fields.
Fields(out) ==
    {out.observations, out.actions0, out.actions1, out.logits_actions0,
     out.logits_actions1, out.values, out.rewards, out.ends}
C5_SameShape ==
    /\ InRollout =>
         /\ \A l \in {Len(all_observations0), Len(all_actions0),
                      Len(all_actions1), Len(all_logits_actions0),
                      Len(all_logits_actions1), Len(all_values0),
                      Len(all_rewards)} : l = Len(all_ends)
         /\ \A t \in 1..Len(all_ends) :
              \A r \in {all_observations0[t], all_actions0[t], all_actions1[t],
                        all_logits_actions0[t], all_logits_actions1[t],
                        all_values0[t], all_rewards[t], all_ends[t]} :
                 r.batch = envs.n
    /\ Returned =>
         \A x \in Fields(output0) :
            /\ x.B = envs.n
            /\ x.T = output0.ends.T
            /\ x.T >= 1
            /\ Len(x.data) = x.T

\* C5 witness: a returned rollout of three environments and seven steps.
C5_Witness ==
    /\ Returned
    /\ output0.rewards.B = 3
    /\ output0.observations.T = 7

Halts ==
    /\ pc' = "halted"
    /\ UNCHANGED <<opt_steps, loss_totals, rewards_all, epoch>>

\* C6 as claimed: an epoch whose environment step fails, or whose total loss
\* is NaN, halts the training loop with no optimizer step, no append to the
\* history and no further epoch.
C6_Original ==
    [][ /\ pc # "halted"
        /\ error' # "none" => Halts
        /\ (pc = "train" /\ DriverLoss(output0) = "nan") => Halts ]_vars

\* C6 amended: there is no retry: a failed environment call (or a failed
\* assertion) halts the training loop with no optimizer step, no append to
\* the history and no further epoch, and nothing runs after the halt.  A NaN
\* loss is not a failure: the loop body has no test of the loss, so every
\* returned rollout, the rollout with T = 1 whose loss is NaN included, is
\* followed by the optimizer step, the append of the loss to the history
\* and the next epoch.
C6_NoRetryNaNContinues ==
    [][ /\ pc # "halted"
        /\ error' # "none" => Halts
        /\ pc = "train" =>
             /\ error' = "none"
             /\ pc' = "main"
             /\ epoch' = epoch + 1
             /\ opt_steps' = opt_steps + 1
             /\ Len(rewards_all') = Len(rewards_all) + 1
             /\ Len(loss_totals') = Len(loss_totals) + 1
             /\ loss_totals'[Len(loss_totals')] =
                   (IF output0.values.T = 1 THEN "nan" ELSE "finite") ]_vars

\* C6 witness: the first epoch's rollout had T = 1, its NaN loss is in the
\* history, the optimizer has stepped, and the second epoch's rollout runs.
C6_Witness ==
    /\ loss_totals = <<"nan">>
    /\ opt_steps = 1
    /\ epoch = 1
    /\ pc = "loop"
    /\ error = "none"

\* The calls of a rollout of T timesteps on n environments, in order.
Pattern(T, n) ==
    [j \in 1..(2 * T + 5) |->
        IF j = 1 THEN Call("reset", n)
        ELSE IF j = 2 THEN Call("env.reset", 0)
        ELSE IF j = 2 * T + 4 THEN Call("clear", 0)
        ELSE IF j = 2 * T + 5 THEN Call("return", T)
        ELSE IF j % 2 = 0 THEN Call("forward", (j - 2) \div 2)
        ELSE Call("env.step", (j - 3) \div 2)]

\* C9: a rollout issues Model reset(n), one environment reset, one
\* null-action step (actions 0), then per iteration one forward followed by
\* one step, then Model clear(): a rollout that returns T timesteps has made
\* exactly these 2T+5 calls (T forwards, T+1 steps), a rollout still running
\* or failed has made a prefix of them; forward number t reads the
\* observation returned by step call number t, the one just before it, and
\* column t-1 of actions, values, rewards and ends belongs to forward
\* number t and to the step call (number t+1) that submitted its actions.
C9_CallOrder ==
    LET F == CountCalls("forward")
        P == Pattern(F, envs.n)
        T == output0.ends.T
    IN
    /\ \A j \in 1..Len(calls) : j <= 2 * F + 3 => calls[j] = P[j]
    /\ (pc \in {"loop", "after_loop", "halted"}) => Len(calls) <= 2 * F + 3
    /\ (pc \in {"train", "main", "finished"} /\ calls # <<>>) => calls = P
    /\ Returned =>
         /\ F = T
         /\ CountCalls("env.step") = T + 1
         /\ CountCalls("env.reset") = 1
         /\ \A t \in 1..T :
              /\ output0.observations.data[t].step = t
              /\ output0.values.data[t].obs = t
              /\ output0.values.data[t].k = t
              /\ output0.actions0.data[t].fwd = t
              /\ output0.actions1.data[t].fwd = t
              /\ output0.logits_actions0.data[t].fwd = t
              /\ output0.logits_actions1.data[t].fwd = t
              /\ output0.rewards.data[t].acts = t
              /\ output0.rewards.data[t].step = t + 1
              /\ output0.ends.data[t].acts = t
              /\ output0.ends.data[t].step = t + 1

\* C9 witness: a returned rollout of three timesteps: eleven calls.
C9_Witness ==
    /\ Returned
    /\ output0.ends.T = 3
    /\ Len(calls) = 11
    /\ CountCalls("env.step") = 4

\* ============================================================ SpecModel
\* Any sequence of at most MaxCalls calls of clear(), reset(n) and
\* forward(inputs) on one ActorCritic, by a caller that goes on after a
\* failed call.  calls records the calls, obss0 the last forward's input,
\* outputs_ac0 its output and error whether the last call raised.
InitModel ==
    /\ hx = NoHidden
    /\ envs = [n |-> 1, t |-> 0]
    /\ obss0 = NoObs
    /\ outputs_ac0 = NoOutput
    /\ all_observations0 = <<>> /\ all_actions0 = <<>>
    /\ all_actions1 = <<>> /\ all_logits_actions0 = <<>>
    /\ all_logits_actions1 = <<>> /\ all_values0 = <<>>
    /\ all_rewards = <<>> /\ all_ends = <<>>
    /\ pc = "model"
    /\ epoch = 0
    /\ output0 = NoRollout
    /\ loss_totals = <<>> /\ rewards_all = <<>>
    /\ opt_steps = 0
    /\ calls = <<>>
    /\ error = "none"
    /\ traj = <<>> /\ params = NoParams /\ losses = <<>>

CallClear ==
    /\ Len(calls) < MaxCalls
    /\ hx' = ModelClear
    /\ calls' = Append(calls, Call("clear", 0))
    /\ error' = "none"
    /\ UNCHANGED <<envs, obss0, outputs_ac0, lists, mainVars, lossVars>>

CallReset ==
    /\ Len(calls) < MaxCalls
    /\ \E n \in 1..MaxBatch :
         /\ hx' = ModelReset(n)
         /\ calls' = Append(calls, Call("reset", n))
    /\ error' = "none"
    /\ UNCHANGED <<envs, obss0, outputs_ac0, lists, mainVars, lossVars>>

\* inputs.valid: the input passes the two asserts on shape and range.
CallForward ==
    /\ Len(calls) < MaxCalls
    /\ \E inputs \in [batch : 1..MaxBatch, step : {0}, valid : BOOLEAN] :
         /\ obss0' = inputs
         /\ calls' = Append(calls, Call("forward", inputs.batch))
         /\ hx' = ForwardState(hx, inputs)
         /\ IF ForwardOK(hx, inputs)
            THEN error' = "none" /\ outputs_ac0' = ForwardOut(hx, inputs)
            ELSE error' = "forward" /\ outputs_ac0' = NoOutput
    /\ UNCHANGED <<envs, lists, mainVars, lossVars>>

NextModel == CallClear \/ CallReset \/ CallForward

SpecModel == InitModel /\ [][NextModel]_vars

\* ================================================== claims under SpecModel
Absent(h) == ~h.present /\ h = NoHidden
PresentN(h, n) == h.present /\ h.n = n

\* C4: over any sequence of clear(), reset(n) and forward() calls the
\* hidden state is absent or present(n) for one n >= 1; clear() leaves it
\* absent; reset(n) leaves it present(n) and zero; a forward on a batch of
\* n in state present(n) leaves it present(n), and returns an output of
\* batch n when the input is valid; a forward in the absent state fails,
\* returns no output and leaves the state absent.
C4_HiddenStateMachine ==
    [][ LET c == calls'[Len(calls')]
        IN /\ Len(calls') = Len(calls) + 1
           /\ Absent(hx') \/ \E n \in 1..MaxBatch : PresentN(hx', n)
           /\ c.op = "clear" => Absent(hx') /\ error' = "none"
           /\ c.op = "reset" =>
                /\ PresentN(hx', c.arg) /\ hx'.k = 0
                /\ error' = "none"
           /\ (c.op = "forward" /\ PresentN(hx, c.arg)) =>
                /\ PresentN(hx', c.arg)
                /\ obss0'.valid =>
                     /\ error' = "none"
                     /\ outputs_ac0'.batch = c.arg
                     /\ hx'.k = hx.k + 1
           /\ (c.op = "forward" /\ Absent(hx)) =>
                /\ error' = "forward"
                /\ outputs_ac0' = NoOutput
                /\ Absent(hx') ]_vars

\* C4 witness: reset(2), a forward that succeeds, clear(), and a forward of
\* a valid input that fails for want of a reset.
C4_Witness ==
    /\ Len(calls) = 4
    /\ calls[1] = Call("reset", 2)
    /\ calls[2] = Call("forward", 2)
    /\ calls[3].op = "clear"
    /\ calls[4] = Call("forward", 2)
    /\ obss0.valid
    /\ error = "forward"
    /\ Absent(hx)

\* ============================================================= SpecLoss
\* compute_loss and the sum of the two heads' totals, applied to recorded
\* trajectories of one row.  traj holds one record per timestep; the
\* training parameters are drawn from Gammas and Lambdas.
Gammas == {R(1, 2), R(1, 1)}
Lambdas == {R(0, 1), R(1, 2), R(1, 1)}
Rewards == {0, 1}

Uniform == [a \in 1..NumActions |-> 0]
Peaked == [a \in 1..NumActions |-> IF a <= 3 THEN 1 ELSE 0]

\* What one forward pass and the two samples drawn from it contribute to a
\* timestep.
Samples ==
    {[value |-> 0, logits0 |-> Uniform, logits1 |-> Peaked, a0 |-> 5, a1 |-> 0],
     [value |-> 1, logits0 |-> Peaked, logits1 |-> Uniform, a0 |-> 1, a1 |-> 6]}

\* The RolloutOutput of a recorded trajectory (one row, no observations).
TrajOutput(tr) ==
    [actions0        |-> [t \in 1..Len(tr) |-> tr[t].a0],
     actions1        |-> [t \in 1..Len(tr) |-> tr[t].a1],
     logits_actions0 |-> [t \in 1..Len(tr) |-> tr[t].logits0],
     logits_actions1 |-> [t \in 1..Len(tr) |-> tr[t].logits1],
     values          |-> [t \in 1..Len(tr) |-> tr[t].value],
     rewards         |-> [t \in 1..Len(tr) |-> tr[t].reward],
     ends            |-> [t \in 1..Len(tr) |-> tr[t].end]]

NoLosses == [losses0 |-> LossWithIntermediateLosses(NaN, NaN, NaN),
             losses1 |-> LossWithIntermediateLosses(NaN, NaN, NaN),
             rewards0 |-> NaN,
             loss_total |-> NaN]

InitLoss ==
    /\ hx = NoHidden
    /\ envs = [n |-> 1, t |-> 0]
    /\ obss0 = NoObs
    /\ outputs_ac0 = NoOutput
    /\ all_observations0 = <<>> /\ all_actions0 = <<>>
    /\ all_actions1 = <<>> /\ all_logits_actions0 = <<>>
    /\ all_logits_actions1 = <<>> /\ all_values0 = <<>>
    /\ all_rewards = <<>> /\ all_ends = <<>>
    /\ pc = "collect"
    /\ epoch = 0
    /\ output0 = NoRollout
    /\ loss_totals = <<>> /\ rewards_all = <<>>
    /\ opt_steps = 0
    /\ calls = <<>>
    /\ error = "none"
    /\ traj = <<>> /\ params = NoParams /\ losses = NoLosses

\* One more timestep is recorded.
Collect ==
    /\ pc = "collect"
    /\ Len(traj) < MaxT
    /\ \E s \in Samples, r \in Rewards, e \in BOOLEAN :
         traj' = Append(traj,
                   [value |-> s.value, logits0 |-> s.logits0,
                    logits1 |-> s.logits1, a0 |-> s.a0, a1 |-> s.a1,
                    reward |-> r, end |-> e])
    /\ UNCHANGED <<hx, envs, obss0, outputs_ac0, lists, mainVars, calls, error,
                   params, losses>>

\* losses0, losses1, rewards0 = alg0.compute_loss(output0, envs) and
\* loss_total = losses0.loss_total + losses1.loss_total
ComputeLoss ==
    /\ pc = "collect"
    /\ Len(traj) >= 1
    /\ \E gamma \in Gammas, lambda_ \in Lambdas :
         \E l \in {compute_loss(TrajOutput(traj), gamma, lambda_, EntropyWeight)} :
            /\ params' = [gamma |-> gamma, lambda_ |-> lambda_]
            /\ losses' = [losses0 |-> l.losses0, losses1 |-> l.losses1,
                          rewards0 |-> l.rewards0,
                          loss_total |-> LossTotal(l.losses0, l.losses1)]
    /\ pc' = "computed"
    /\ UNCHANGED <<hx, envs, obss0, outputs_ac0, lists, epoch, output0,
                   loss_totals, rewards_all, opt_steps, calls, error, traj>>

NextLoss == Collect \/ ComputeLoss

SpecLoss == InitLoss /\ [][NextLoss]_vars

\* =================================================== claims under SpecLoss
Computed == pc = "computed"
Out == TrajOutput(traj)
T_ == Len(traj)

\* C7: the scalar the training loop backpropagates is
\* loss_actions0 + loss_actions1 + loss_entropy0 + loss_entropy1
\* + 2 * loss_values: each bundle's total is the sum of its three
\* components, the two bundles hold the same value loss, and the loop adds
\* the two totals.  (For T = 1 every term, and so each side, is NaN.)
C7_TotalIsSumOfBundles ==
    Computed =>
      LET l0 == losses.losses0
          l1 == losses.losses1
      IN /\ l0.loss_total =
               RAdd(RAdd(l0.loss_actions, l0.loss_values), l0.loss_entropy)
         /\ l1.loss_total =
               RAdd(RAdd(l1.loss_actions, l1.loss_values), l1.loss_entropy)
         /\ l0.loss_values = l1.loss_values
         /\ losses.loss_total =
               RAdd(RAdd(RAdd(RAdd(l0.loss_actions, l1.loss_actions),
                              l0.loss_entropy), l1.loss_entropy),
                    RMul(Num(2), l0.loss_values))
         /\ IsNaN(losses.loss_total) <=> T_ = 1

\* C7 witness: a three-step trajectory whose heads' action losses differ
\* and whose value loss is not zero.
C7_Witness ==
    /\ Computed
    /\ T_ = 3
    /\ ~IsNaN(losses.loss_total)
    /\ losses.losses0.loss_actions # losses.losses1.loss_actions
    /\ losses.losses0.loss_values.num > 0

\* The lambda-returns compute_loss obtains for the recorded trajectory.
Returns == LambdaReturnsCall(Out, params.gamma, params.lambda_)

AltLast ==
    {[reward |-> 0, a0 |-> 0, a1 |-> 0, logits0 |-> Uniform, logits1 |-> Uniform],
     [reward |-> 2, a0 |-> 6, a1 |-> 3, logits0 |-> Peaked, logits1 |-> Peaked]}

WithLast(tr, alt) ==
    [tr EXCEPT ![Len(tr)] =
        [value |-> @.value, end |-> @.end, reward |-> alt.reward,
         a0 |-> alt.a0, a1 |-> alt.a1,
         logits0 |-> alt.logits0, logits1 |-> alt.logits1]]

\* C10: compute_loss reads timesteps 0..T-2 only: replacing the reward,
\* the two actions and the two logit vectors of the last timestep T-1
\* changes none of the three loss components (nor the total) of either head.
C10_LastStepUnused ==
    Computed =>
      \A alt \in AltLast :
        \A l \in {compute_loss(TrajOutput(WithLast(traj, alt)), params.gamma,
                               params.lambda_, EntropyWeight)} :
           /\ l.losses0 = losses.losses0
           /\ l.losses1 = losses.losses1

\* C10 witness: a three-step trajectory that ends by termination with
\* reward 1 at the terminating step and whose losses are not zero.
C10_Witness ==
    /\ Computed
    /\ T_ = 3
    /\ traj[3].end /\ ~traj[2].end /\ ~traj[1].end
    /\ traj[3].reward = 1
    /\ losses.losses0.loss_actions.num # 0
    /\ losses.losses1.loss_values.num # 0
====
